---- MODULE Spec2Model ----
(***************************************************************************)
(* A model of dashboard.py: the workbook read at start-up, the loader      *)
(* load_sheet_data and the two Dash callbacks update_manufacturer_options  *)
(* and update_dashboard.  A DataFrame is a record [columns, rows]: columns *)
(* is the ordered header, rows the ordered records, each a function from   *)
(* column name to cell.                                                    *)
(***************************************************************************)
EXTENDS Integers, Sequences, FiniteSets, TLC

VARIABLES xl, out

vars == <<xl, out>>

(***************************************************************************)
(* Cells.  A spreadsheet cell is missing (NaN), text or a number; the      *)
(* three are carried in one record shape so that any two cells compare.    *)
(***************************************************************************)
NaN == [t |-> "nan", s |-> "", n |-> 0]

Str(x) == [t |-> "str", s |-> x, n |-> 0]

Num(v) == [t |-> "num", s |-> "", n |-> v]

isna(c) == c.t = "nan"

Range(s) == {s[i] : i \in DOMAIN s}

(***************************************************************************)
(* Bounds of the model.                                                    *)
(***************************************************************************)
\* rows of a sheet of the general family
MaxRows == 2

\* rows of a sheet of the ranking family (one manufacturer column)
MaxTopRows == 6

\* how many positions of the top-N slider, counted from its minimum, are tried
MaxSliderSteps == 2

(***************************************************************************)
(* Program constants.                                                      *)
(***************************************************************************)
SliderMin == 5

SliderMax == 30

SliderStep == 5

SampleRows == 10

Hersteller == "Hersteller"

Herstellerbezeichnung == "Herstellerbezeichnung"

mass_col == "höchstzulässige Abflugmasse (kg)"

\* the sheets of the workbook (xl.sheet_names); one sheet is enough, since
\* every callback reads exactly the sheet it is given
sheet_names == {"1.a"}

\* the group-by dropdown's values
GroupBys == {Hersteller, Herstellerbezeichnung, "both"}

\* the slider's values min, min+step, ... max, cut at MaxSliderSteps positions
TopNs ==
  {n \in SliderMin..SliderMax :
     /\ (n - SliderMin) % SliderStep = 0
     /\ n < SliderMin + SliderStep * MaxSliderSteps}

\* the multi-select's value: None until something is picked, then a list
\* (its order is irrelevant to isin, so a set)
None == [is_none |-> TRUE, names |-> {}]

List(S) == [is_none |-> FALSE, names |-> S]

Filters ==
  {None, List({}), List({"Piper"}), List({"Boeing"}), List({"Cessna", "Piper"})}

(***************************************************************************)
(* The workbook's contents.  A raw sheet is what read_excel(header=1)      *)
(* makes of it: unreadable (read_excel raises), or a header and rows.      *)
(***************************************************************************)
Unreadable == [readable |-> FALSE, header |-> <<>>, rows |-> <<>>]

Layouts ==
  { <<Hersteller, Herstellerbezeichnung, mass_col>>,
    <<Herstellerbezeichnung, mass_col>>,
    <<mass_col, Hersteller>>,
    <<Hersteller, Herstellerbezeichnung>>,
    <<mass_col>> }

CellsOf(col) ==
  IF col = Hersteller THEN {NaN, Str("Cessna"), Str("Piper")}
  ELSE IF col = Herstellerbezeichnung THEN {NaN, Str("172")}
  ELSE {Str("k.A."), Num(900), Num(1200)}

AllCells == UNION {CellsOf(c) : c \in {Hersteller, Herstellerbezeichnung, mass_col}}

RowsOf(layout) ==
  {r \in [Range(layout) -> AllCells] : \A c \in Range(layout) : r[c] \in CellsOf(c)}

BSeq(S, n) == UNION {[1..k -> S] : k \in 0..n}

SmallSheets ==
  UNION {{[readable |-> TRUE, header |-> L, rows |-> rs] : rs \in BSeq(RowsOf(L), MaxRows)}
           : L \in Layouts}

\* The ranking family: sheets with only the manufacturer column and more rows
\* than the slider's minimum, the manufacturers named in order of first
\* appearance (the counting never looks into a name).
FirstSeenNames ==
  <<"Cessna", "Piper", "Diamond", "Airbus", "Robin", "Tecnam", "Schleicher", "Boeing">>

MaxOf(S) == IF S = {} THEN 0 ELSE CHOOSE m \in S : \A x \in S : x <= m

RECURSIVE Growth(_)
Growth(n) ==
  IF n = 0 THEN {<<>>}
  ELSE UNION {{Append(s, k) : k \in 1..(MaxOf(Range(s)) + 1)} : s \in Growth(n - 1)}

TopSheets ==
  UNION {{[readable |-> TRUE, header |-> <<Hersteller>>,
           rows |-> [i \in 1..n |-> [c \in {Hersteller} |-> Str(FirstSeenNames[g[i]])]]]
            : g \in Growth(n)} : n \in (SliderMin + 1)..MaxTopRows}

GeneralSheets == {Unreadable} \cup SmallSheets

RawSheets == GeneralSheets \cup TopSheets

(***************************************************************************)
(* load_sheet_data                                                         *)
(***************************************************************************)
EmptyFrame == [columns |-> <<>>, rows |-> <<>>]

empty(df) == Len(df.columns) = 0 \/ Len(df.rows) = 0

\* df.dropna(how='all')
dropna_all(df) ==
  LET NotAllNa(r) == \E c \in Range(df.columns) : ~isna(r[c])
  IN  [df EXCEPT !.rows = SelectSeq(df.rows, NotAllNa)]

\* pd.to_numeric(errors='coerce') of one cell: text that is no number is NaN
to_numeric(c) == IF c.t = "num" THEN c ELSE NaN

load_sheet_data(sheet_name) ==
  LET raw == xl[sheet_name] IN
  IF ~raw.readable THEN EmptyFrame
  ELSE LET df == dropna_all([columns |-> raw.header, rows |-> raw.rows])
       IN  IF mass_col \in Range(df.columns)
           THEN [df EXCEPT !.rows =
                   [i \in DOMAIN df.rows |->
                      [df.rows[i] EXCEPT ![mass_col] = to_numeric(df.rows[i][mass_col])]]]
           ELSE df

\* df[col] as the sequence of its cells
Column(df, col) == [i \in DOMAIN df.rows |-> df.rows[i][col]]

\* series.dropna()
dropna(series) == SelectSeq(series, LAMBDA c : ~isna(c))

(***************************************************************************)
(* update_manufacturer_options                                             *)
(***************************************************************************)
\* Python's order of str (code points), on the names the model uses
Alphabet ==
  <<"Airbus", "Boeing", "Cessna", "Diamond", "Piper", "Robin", "Schleicher", "Tecnam">>

StrRank(x) == CHOOSE i \in DOMAIN Alphabet : Alphabet[i] = x

RECURSIVE sorted(_)
\* sorted(S) of a set of text cells
sorted(S) ==
  IF S = {} THEN <<>>
  ELSE LET m == CHOOSE c \in S : \A d \in S : StrRank(c.s) <= StrRank(d.s)
       IN  <<m>> \o sorted(S \ {m})

\* series.dropna().unique(), as a set
unique(series) == Range(dropna(series))

\* len(df[df[col] == value])
CountEq(df, col, value) == Cardinality({i \in DOMAIN df.rows : df.rows[i][col] = value})

OptionLabel(manufacturer, count) ==
  manufacturer.s \o " (" \o ToString(count) \o " aircraft)"

update_manufacturer_options(selected_sheet) ==
  LET df == load_sheet_data(selected_sheet) IN
  IF empty(df) \/ Hersteller \notin Range(df.columns) THEN <<>>
  ELSE LET manufacturers == sorted(unique(Column(df, Hersteller)))
       IN  [i \in DOMAIN manufacturers |->
              [label |-> OptionLabel(manufacturers[i],
                                     CountEq(df, Hersteller, manufacturers[i])),
               value |-> manufacturers[i].s]]

(***************************************************************************)
(* update_dashboard: filter, grouping, counting                            *)
(***************************************************************************)
\* the guard of the manufacturer filter
FilterApplies(df, selected_manufacturers) ==
  /\ ~selected_manufacturers.is_none
  /\ selected_manufacturers.names # {}
  /\ Hersteller \in Range(df.columns)

\* df[df['Hersteller'].isin(selected_manufacturers)]
isin_filter(df, selected_manufacturers) ==
  LET Keep(r) == r[Hersteller].t = "str" /\ r[Hersteller].s \in selected_manufacturers.names
  IN  [df EXCEPT !.rows = SelectSeq(df.rows, Keep)]

\* cell.astype(str): a missing value becomes the text 'nan'
astype_str(c) ==
  IF c.t = "nan" THEN "nan" ELSE IF c.t = "str" THEN c.s ELSE ToString(c.n)

BothPresent(df) ==
  Hersteller \in Range(df.columns) /\ Herstellerbezeichnung \in Range(df.columns)

\* the frame after "Prepare grouping": by-both adds the column 'Group'
with_group(df, group_by) ==
  IF group_by = "both" /\ BothPresent(df)
  THEN [columns |-> Append(df.columns, "Group"),
        rows |-> [i \in DOMAIN df.rows |->
                    [c \in Range(df.columns) \cup {"Group"} |->
                       IF c = "Group"
                       THEN Str(astype_str(df.rows[i][Hersteller]) \o " - "
                                \o astype_str(df.rows[i][Herstellerbezeichnung]))
                       ELSE df.rows[i][c]]]]
  ELSE df

\* a grouping whose by-both fallback skips the manufacturer column
group_col_first_column(df, group_by) ==
  IF group_by = "both"
  THEN IF BothPresent(df) THEN "Group" ELSE df.columns[1]
  ELSE IF group_by \in Range(df.columns) THEN group_by ELSE df.columns[1]

\* the column "Prepare grouping" chooses
group_col_of(df, group_by) ==
  IF group_by = "both"
  THEN IF BothPresent(df) THEN "Group"
       ELSE IF Hersteller \in Range(df.columns) THEN Hersteller ELSE df.columns[1]
  ELSE IF group_by \in Range(df.columns) THEN group_by ELSE df.columns[1]

\* how many cells of the series equal the key
KeyCount(series, key) == Cardinality({i \in DOMAIN series : series[i] = key})

RECURSIVE sort_values(_, _)
\* Series.sort_values(ascending=False) of the counts of the keys: every order
\* with the counts non-increasing.  pandas sorts with kind='quicksort', which
\* is not a stable sort, so the order among equal counts is the library's.
sort_values(series, keys) ==
  IF keys = {} THEN {<<>>}
  ELSE LET mx == MaxOf({KeyCount(series, k) : k \in keys})
       IN  UNION {{<<[key |-> k, count |-> mx]>> \o rest
                     : rest \in sort_values(series, keys \ {k})}
                    : k \in {k \in keys : KeyCount(series, k) = mx}}

\* value_counts(dropna=False): a missing value is a key like any other
value_counts_keepna(series) == sort_values(series, Range(series))

\* series.value_counts(): the missing values are not counted (dropna=True)
value_counts(series) == sort_values(series, unique(series))

\* head that keeps one entry too many
head_one_more(s, n) == SubSeq(s, 1, IF Len(s) < n + 1 THEN Len(s) ELSE n + 1)

\* s.head(n)
head(s, n) == SubSeq(s, 1, IF Len(s) < n THEN Len(s) ELSE n)

(***************************************************************************)
(* update_dashboard: the four outputs                                      *)
(***************************************************************************)
\* go.Figure() with one annotation
Annotation(text) == [type |-> "annotation", text |-> text]

\* a bare string returned as an output's children
Text(text) == [type |-> "text", text |-> text]

\* no output at all: the callback raised
Nothing == [type |-> "none"]

\* px.bar of the counts
BarFigure(group_counts, group_col, top_n) ==
  [type |-> "bar",
   data |-> group_counts,
   label |-> group_col,
   title |-> "Top " \o ToString(top_n) \o " " \o group_col \o " by Aircraft Count"]

\* stats.gaussian_kde(mass_data): the exception it raises, "" when it returns.
\* One point is refused outright; equal points have a singular covariance.
kde_error(mass_data) ==
  IF Len(mass_data) <= 1 THEN "ValueError"
  ELSE IF Cardinality(Range(mass_data)) = 1 THEN "LinAlgError"
  ELSE ""

\* histogram and density curve over the values, spanning [min, max]
DensityFigure(mass_data) ==
  [type |-> "density",
   data |-> mass_data,
   title |-> "Distribution of " \o mass_col]

RECURSIVE SumOf(_)
SumOf(series) == IF series = <<>> THEN 0 ELSE Head(series).n + SumOf(Tail(series))

\* f"{total / count:,.0f}": the nearest integer, a tie going to the even one
format_0f(total, count) ==
  LET q == total \div count
      r == total % count
  IN  IF 2 * r < count THEN q
      ELSE IF 2 * r > count THEN q + 1
      ELSE IF q % 2 = 0 THEN q ELSE q + 1

\* series.nunique()
nunique(series) == Cardinality(unique(series))

\* series.isna().all()
isna_all(series) == \A i \in DOMAIN series : isna(series[i])

HasMass(df) == mass_col \in Range(df.columns) /\ ~isna_all(Column(df, mass_col))

summary_cards(df) ==
  LET masses == IF mass_col \in Range(df.columns) THEN dropna(Column(df, mass_col)) ELSE <<>>
  IN  [type |-> "cards",
       total |-> Num(Len(df.rows)),
       unique |-> IF Hersteller \in Range(df.columns)
                  THEN Num(nunique(Column(df, Hersteller))) ELSE Str("N/A"),
       mean |-> IF HasMass(df) THEN Num(format_0f(SumOf(masses), Len(masses))) ELSE Str("N/A"),
       max |-> IF HasMass(df) THEN Num(MaxOf({c.n : c \in Range(masses)})) ELSE Str("N/A")]

\* df.head(10).to_html(index=False)
table_data(df) ==
  [type |-> "table", columns |-> df.columns, rows |-> head(df.rows, SampleRows)]

\* what the callback leaves: its arguments, how it ended, its four outputs (or
\* the options list), and the locals the aggregation computed on the way
Result(call, sheet, group_by, top_n, selected, exit, error, figs, df, group_col, group_counts, options) ==
  [call |-> call, selected_sheet |-> sheet, group_by |-> group_by, top_n |-> top_n,
   selected_manufacturers |-> selected,
   exit |-> exit, error |-> error,
   bar_fig |-> figs[1], density_fig |-> figs[2], summary |-> figs[3], table |-> figs[4],
   df |-> df, group_col |-> group_col, group_counts |-> group_counts,
   options |-> options]

NoCall ==
  Result("", "", "", 0, None, "", "", <<Nothing, Nothing, Nothing, Nothing>>,
         EmptyFrame, "", <<>>, <<>>)

MsgNoData == "No data available"

MsgNoMatch == "No data available for selected manufacturer(s)"

MsgNoMass == "No mass data available"

MsgNoMassColumn == "Mass column not found"

\* the early return of an empty frame: one annotated figure used twice, the
\* message as the summary, and '' as the table
Placeholder(message) ==
  <<Annotation(message), Annotation(message), Text(message), Text("")>>

\* a density plot with one message for both of its empty cases
density_plot_one_message(df) ==
  IF mass_col \in Range(df.columns) /\ Len(dropna(Column(df, mass_col))) > 0
  THEN IF kde_error(dropna(Column(df, mass_col))) # "" THEN Nothing
       ELSE DensityFigure(dropna(Column(df, mass_col)))
  ELSE Annotation(MsgNoMass)

\* the density plot of the (filtered) frame, Nothing where gaussian_kde raises
density_plot(df) ==
  IF mass_col \in Range(df.columns)
  THEN LET mass_data == dropna(Column(df, mass_col))
       IN  IF Len(mass_data) > 0
           THEN IF kde_error(mass_data) # "" THEN Nothing ELSE DensityFigure(mass_data)
           ELSE Annotation(MsgNoMass)
  ELSE Annotation(MsgNoMassColumn)

\* the error the density plot ends the callback with, "" when it does not
density_error(df) ==
  IF mass_col \in Range(df.columns) /\ Len(dropna(Column(df, mass_col))) > 0
  THEN kde_error(dropna(Column(df, mass_col)))
  ELSE ""

\* the part of update_dashboard after the grouping column is chosen, for one
\* outcome of value_counts().head(top_n)
populated(sheet, group_by, top_n, selected, df, group_col, group_counts) ==
  IF density_error(df) # ""
  THEN Result("update_dashboard", sheet, group_by, top_n, selected,
              "gaussian_kde", density_error(df),
              <<Nothing, Nothing, Nothing, Nothing>>, df, group_col, group_counts, <<>>)
  ELSE Result("update_dashboard", sheet, group_by, top_n, selected, "end", "",
              <<BarFigure(group_counts, group_col, top_n), density_plot(df),
                summary_cards(df), table_data(df)>>,
              df, group_col, group_counts, <<>>)

\* the frame the filter step leaves
filtered(df, selected_manufacturers) ==
  IF FilterApplies(df, selected_manufacturers)
  THEN isin_filter(df, selected_manufacturers)
  ELSE df

\* update_dashboard: the set of results the call can end with
update_dashboard(selected_sheet, group_by, top_n, selected_manufacturers) ==
  LET loaded == load_sheet_data(selected_sheet) IN
  IF empty(loaded)
  THEN {Result("update_dashboard", selected_sheet, group_by, top_n, selected_manufacturers,
               "empty_sheet", "", Placeholder(MsgNoData), loaded, "", <<>>, <<>>)}
  ELSE LET kept == filtered(loaded, selected_manufacturers) IN
       IF FilterApplies(loaded, selected_manufacturers) /\ empty(kept)
       THEN {Result("update_dashboard", selected_sheet, group_by, top_n,
                    selected_manufacturers, "empty_filter", "",
                    Placeholder(MsgNoMatch), kept, "", <<>>, <<>>)}
       ELSE LET df == with_group(kept, group_by)
                group_col == group_col_of(kept, group_by)
            IN  {populated(selected_sheet, group_by, top_n, selected_manufacturers,
                           df, group_col, head(ranking, top_n))
                   : ranking \in value_counts(Column(df, group_col))}

(***************************************************************************)
(* The state machine.  The workbook is fixed at start-up.  The server is   *)
(* stateless and synchronous: a change of a selection runs one callback to *)
(* its end, out holds that callback's response until it is delivered, and  *)
(* the next callback starts from nothing but the workbook.                 *)
(***************************************************************************)
Init ==
  /\ xl \in [sheet_names -> RawSheets]
  /\ out = NoCall

UpdateManufacturerOptions ==
  /\ out = NoCall
  /\ \E selected_sheet \in sheet_names :
       out' = Result("update_manufacturer_options", selected_sheet, "", 0, None, "end", "",
                     <<Nothing, Nothing, Nothing, Nothing>>, EmptyFrame, "", <<>>,
                     update_manufacturer_options(selected_sheet))
  /\ UNCHANGED xl

UpdateDashboard ==
  /\ out = NoCall
  /\ \E selected_sheet \in sheet_names, group_by \in GroupBys, top_n \in TopNs,
        selected_manufacturers \in Filters :
       out' \in update_dashboard(selected_sheet, group_by, top_n, selected_manufacturers)
  /\ UNCHANGED xl

\* the response reaches the browser
Respond ==
  /\ out # NoCall
  /\ out' = NoCall
  /\ UNCHANGED xl

Next == UpdateManufacturerOptions \/ UpdateDashboard \/ Respond

Spec == Init /\ [][Next]_vars

\* the same machine started on a workbook of the general family
InitGeneral ==
  /\ xl \in [sheet_names -> GeneralSheets]
  /\ out = NoCall

SpecGeneral == InitGeneral /\ [][Next]_vars

(***************************************************************************)
(* Vocabulary of the properties.                                           *)
(***************************************************************************)
\* update_dashboard has run
Ran == out.call = "update_dashboard"

\* ... and got past the two early returns, so the aggregation was computed
Grouped == Ran /\ out.exit \in {"end", "gaussian_kde"}

\* the sheet as loaded, before the filter
Loaded == load_sheet_data(out.selected_sheet)

HasColumn(df, col) == \E i \in DOMAIN df.columns : df.columns[i] = col

\* a filter with at least one name in it
FilterGiven == ~out.selected_manufacturers.is_none /\ out.selected_manufacturers.names # {}

\* the record's manufacturer is one of the selected names
Matches(df, r) ==
  /\ HasColumn(df, Hersteller)
  /\ r[Hersteller].t = "str"
  /\ r[Hersteller].s \in out.selected_manufacturers.names

\* the grouping column's cells, record by record, in the frame that was counted
GroupCells == [i \in DOMAIN out.df.rows |-> out.df.rows[i][out.group_col]]

\* the distinct group keys: the non-missing values of the grouping column
GroupKeys == {GroupCells[i] : i \in DOMAIN GroupCells} \ {NaN}

\* the records that have a group key
KeyedRows == {i \in DOMAIN GroupCells : GroupCells[i] # NaN}

RowsOfKey(k) == {i \in DOMAIN GroupCells : GroupCells[i] = k}

FirstSeen(k) == CHOOSE i \in RowsOfKey(k) : \A j \in RowsOfKey(k) : i <= j

ReturnedKeys == {out.group_counts[i].key : i \in DOMAIN out.group_counts}

RECURSIVE SumCounts(_)
SumCounts(gc) == IF gc = <<>> THEN 0 ELSE Head(gc).count + SumCounts(Tail(gc))

\* a ranks before b: more records, or as many and seen earlier
Precedes(a, b) ==
  \/ Cardinality(RowsOfKey(a)) > Cardinality(RowsOfKey(b))
  \/ /\ Cardinality(RowsOfKey(a)) = Cardinality(RowsOfKey(b))
     /\ FirstSeen(a) < FirstSeen(b)

(***************************************************************************)
(* C1                                                                      *)
(***************************************************************************)
\* C1: every call of update_dashboard with a valid selection returns four
\* renderable outputs (populated data or a placeholder) and never raises,
\* also when the mass column holds one value or only equal values.
C1_AlwaysRenderable ==
  Ran =>
    /\ out.error = ""
    /\ out.bar_fig.type \in {"bar", "annotation"}
    /\ out.density_fig.type \in {"density", "annotation"}
    /\ out.summary.type \in {"cards", "text"}
    /\ out.table.type \in {"table", "text"}

(***************************************************************************)
(* C2                                                                      *)
(***************************************************************************)
\* C2 as stated: the returned counts sum to at most the filtered row count,
\* every returned label is a key of the filtered sheet, and the sum equals
\* the filtered row count whenever top_n is at least the number of groups,
\* records with a missing grouping value included.
C2_CountsSumToFilteredRows ==
  Grouped =>
    /\ SumCounts(out.group_counts) <= Len(out.df.rows)
    /\ ReturnedKeys \subseteq GroupKeys
    /\ out.top_n >= Cardinality(GroupKeys) =>
         SumCounts(out.group_counts) = Len(out.df.rows)

\* C2 amended: the returned counts sum to at most the filtered row count,
\* every returned label is a non-missing key of the filtered sheet, and
\* whenever top_n is at least the number of distinct keys the sum equals the
\* number of filtered records whose grouping value is not missing.
C2_CountsSumToKeyedRows ==
  Grouped =>
    /\ SumCounts(out.group_counts) <= Len(out.df.rows)
    /\ ReturnedKeys \subseteq GroupKeys
    /\ out.top_n >= Cardinality(GroupKeys) =>
         SumCounts(out.group_counts) = Cardinality(KeyedRows)

\* a record without a grouping value was left out of the counts of the others
C2_Witness ==
  /\ Grouped
  /\ out.exit = "end"
  /\ out.group_col = Hersteller
  /\ out.group_counts # <<>>
  /\ \E i \in DOMAIN GroupCells : GroupCells[i] = NaN
  /\ SumCounts(out.group_counts) = Cardinality(KeyedRows)
  /\ SumCounts(out.group_counts) < Len(out.df.rows)

(***************************************************************************)
(* C3                                                                      *)
(***************************************************************************)
\* C3: the aggregation returns at most top_n groups, and exactly as many as
\* there are distinct (non-missing) group keys when top_n is at least that.
C3_AtMostTopN ==
  Grouped =>
    /\ Len(out.group_counts) <= out.top_n
    /\ out.top_n >= Cardinality(GroupKeys) =>
         Len(out.group_counts) = Cardinality(GroupKeys)

\* more keys than top_n: the ranking was cut to exactly top_n groups
C3_Truncated ==
  /\ Grouped
  /\ Cardinality(GroupKeys) > out.top_n
  /\ Len(out.group_counts) = out.top_n

(***************************************************************************)
(* C4                                                                      *)
(***************************************************************************)
\* C4: the returned groups are the first top_n of the per-key counts sorted
\* by count descending with equal counts in first-seen order: each entry
\* carries its key's count, an earlier entry ranks before a later one, and
\* every returned key ranks before every omitted one.
C4_TiesKeepFirstSeenOrder ==
  Grouped =>
    /\ \A i \in DOMAIN out.group_counts :
         out.group_counts[i].count = Cardinality(RowsOfKey(out.group_counts[i].key))
    /\ \A i, j \in DOMAIN out.group_counts :
         i < j => Precedes(out.group_counts[i].key, out.group_counts[j].key)
    /\ \A r \in ReturnedKeys : \A k \in GroupKeys \ ReturnedKeys : Precedes(r, k)

(***************************************************************************)
(* C5                                                                      *)
(***************************************************************************)
\* the records expected to remain: those whose manufacturer is in a
\* given filter, all of them without one
ExpectedRows ==
  IF FilterGiven
  THEN SelectSeq(Loaded.rows, LAMBDA r : Matches(Loaded, r))
  ELSE Loaded.rows

\* the records the callback worked on, on the sheet's own columns
UsedRows ==
  [i \in DOMAIN out.df.rows |-> [c \in Range(Loaded.columns) |-> out.df.rows[i][c]]]

\* C5, on the sheets that have the manufacturer column: the records used are
\* exactly the sheet's records whose manufacturer is in a non-empty filter,
\* all records without one, and whenever some record remains the summary's
\* total is their number (filter {Piper} on Cessna, Cessna, Piper: total 1).
C5_TotalIsFilteredRowCount ==
  (Ran /\ HasColumn(Loaded, Hersteller)) =>
    /\ UsedRows = ExpectedRows
    /\ ExpectedRows # <<>> =>
         /\ out.summary.type = "cards"
         /\ out.summary.total = Num(Len(ExpectedRows))

(***************************************************************************)
(* C6                                                                      *)
(***************************************************************************)
\* all four outputs carry the message
AllFour(message) ==
  /\ out.bar_fig = Annotation(message)
  /\ out.density_fig = Annotation(message)
  /\ out.summary = Text(message)
  /\ out.table = Text(message)

\* the two figures and the summary carry the message, the table is blank
ThreeAndBlankTable(message) ==
  /\ out.bar_fig = Annotation(message)
  /\ out.density_fig = Annotation(message)
  /\ out.summary = Text(message)
  /\ out.table = Text("")

\* no record of the loaded sheet has a manufacturer in the filter
NoMatch == \A i \in DOMAIN Loaded.rows : ~Matches(Loaded, Loaded.rows[i])

\* the mass values of the records that remain
MassCells == [i \in DOMAIN out.df.rows |-> out.df.rows[i][mass_col]]

PairwiseDistinct(S) == \A i, j \in DOMAIN S : i # j => S[i] # S[j]

\* C6 as stated: an empty sheet gives "No data available" on all four
\* outputs; a non-empty filter matching no record gives the "selected
\* manufacturer(s)" message on all four; otherwise a sheet without the mass
\* column gives "Mass column not found" and a mass column without a value
\* gives "No mass data available"; the four messages differ.
C6_SentinelOnAllFourOutputs ==
  Ran =>
    /\ empty(Loaded) => AllFour(MsgNoData)
    /\ (~empty(Loaded) /\ FilterGiven /\ NoMatch) => AllFour(MsgNoMatch)
    /\ (Grouped /\ ~HasColumn(out.df, mass_col)) =>
         out.density_fig = Annotation(MsgNoMassColumn)
    /\ (Grouped /\ HasColumn(out.df, mass_col) /\ isna_all(MassCells)) =>
         out.density_fig = Annotation(MsgNoMass)
    /\ PairwiseDistinct(<<MsgNoData, MsgNoMatch, MsgNoMassColumn, MsgNoMass>>)

\* C6 amended: an empty sheet gives "No data available" as both figures and
\* the summary, with a blank table; a non-empty filter that matches no record
\* of a sheet that has the manufacturer column gives the "selected
\* manufacturer(s)" message the same way; when records remain, a sheet without
\* the mass column gives the distribution "Mass column not found" and a mass
\* column without a value among them gives "No mass data available"; none of
\* these ends in an exception and the four messages differ.
C6_SentinelPerCause ==
  Ran =>
    /\ empty(Loaded) => ThreeAndBlankTable(MsgNoData)
    /\ (~empty(Loaded) /\ HasColumn(Loaded, Hersteller) /\ FilterGiven /\ NoMatch) =>
         ThreeAndBlankTable(MsgNoMatch)
    /\ (Grouped /\ ~HasColumn(out.df, mass_col)) =>
         out.error = "" /\ out.density_fig = Annotation(MsgNoMassColumn)
    /\ (Grouped /\ HasColumn(out.df, mass_col) /\ isna_all(MassCells)) =>
         out.error = "" /\ out.density_fig = Annotation(MsgNoMass)
    /\ PairwiseDistinct(<<MsgNoData, MsgNoMatch, MsgNoMassColumn, MsgNoMass>>)

\* records remain after a filter that matched some, none of them has a mass,
\* and the distribution is the "no mass data" placeholder
C6_Witness ==
  /\ Grouped
  /\ FilterGiven
  /\ HasColumn(out.df, mass_col)
  /\ isna_all(MassCells)
  /\ Len(out.df.rows) < Len(Loaded.rows)
  /\ out.density_fig = Annotation(MsgNoMass)
  /\ out.summary.type = "cards"

(***************************************************************************)
(* C7                                                                      *)
(***************************************************************************)
\* the non-missing mass values of the records that remain
Masses == {MassCells[i].n : i \in {j \in DOMAIN MassCells : MassCells[j] # NaN}}

MassTotal == SumOf(SelectSeq(MassCells, LAMBDA c : c # NaN))

MassCount == Cardinality({j \in DOMAIN MassCells : MassCells[j] # NaN})

\* C7: whenever records remain the summary has all four values: total is the
\* number of records; uniqueManufacturers the number of distinct non-missing
\* manufacturers, "N/A" exactly when the column is absent; meanMass and
\* maxMass the mean (shown to the nearest integer) and the maximum of the
\* non-missing masses, "N/A" exactly when the column is absent or holds none.
C7_SummaryValuesIndependent ==
  Grouped =>
    /\ out.summary.type = "cards"
    /\ out.summary.total = Num(Len(out.df.rows))
    /\ IF HasColumn(out.df, Hersteller)
       THEN out.summary.unique =
              Num(Cardinality({out.df.rows[i][Hersteller] : i \in DOMAIN out.df.rows} \ {NaN}))
       ELSE out.summary.unique = Str("N/A")
    /\ IF HasColumn(out.df, mass_col) /\ MassCount > 0
       THEN /\ out.summary.mean.t = "num"
            /\ 2 * (out.summary.mean.n * MassCount - MassTotal) <= MassCount
            /\ 2 * (MassTotal - out.summary.mean.n * MassCount) <= MassCount
            /\ out.summary.max.t = "num"
            /\ out.summary.max.n \in Masses
            /\ \A m \in Masses : m <= out.summary.max.n
       ELSE out.summary.mean = Str("N/A") /\ out.summary.max = Str("N/A")

(***************************************************************************)
(* C8                                                                      *)
(***************************************************************************)
\* the non-missing manufacturer values of the loaded sheet
OfferedNames ==
  IF empty(Loaded) \/ ~HasColumn(Loaded, Hersteller) THEN {}
  ELSE {Loaded.rows[i][Hersteller].s :
          i \in {j \in DOMAIN Loaded.rows : Loaded.rows[j][Hersteller] # NaN}}

\* the number of sheet records of a manufacturer
AircraftOf(name) ==
  Cardinality({i \in DOMAIN Loaded.rows : Loaded.rows[i][Hersteller] = Str(name)})

\* the options are one per manufacturer, in ascending order of the name, each
\* labelled with the manufacturer's number of records
C8_OptionsListManufacturers ==
  out.call = "update_manufacturer_options" =>
    /\ {out.options[i].value : i \in DOMAIN out.options} = OfferedNames
    /\ Len(out.options) = Cardinality(OfferedNames)
    /\ \A i, j \in DOMAIN out.options :
         i < j => StrRank(out.options[i].value) < StrRank(out.options[j].value)
    /\ \A i \in DOMAIN out.options :
         out.options[i].label =
           out.options[i].value \o " (" \o ToString(AircraftOf(out.options[i].value))
             \o " aircraft)"

\* C8: the options are as above, and selecting any one offered value as the
\* filter (with any group-by mode and top-N) gives a populated result whose
\* summary total is the count shown in that option's label.
C8_OfferedValueGivesItsCount ==
  out.call = "update_manufacturer_options" =>
    /\ C8_OptionsListManufacturers
    /\ \A i \in DOMAIN out.options : \A group_by \in GroupBys : \A top_n \in TopNs :
         \A r \in update_dashboard(out.selected_sheet, group_by, top_n,
                                   List({out.options[i].value})) :
           /\ r.exit = "end"
           /\ r.summary.type = "cards"
           /\ r.summary.total = Num(AircraftOf(out.options[i].value))

(***************************************************************************)
(* C9                                                                      *)
(***************************************************************************)
\* a cell as text, a missing one as 'nan'
Txt(c) == IF c = NaN THEN "nan" ELSE c.s

\* C9: the grouping column is a column of the frame; by-manufacturer and
\* by-model use their field when the sheet has it; by-both gives every record
\* the key "{manufacturer} - {model}" with a missing value as text, so that no
\* record is without a key and all are counted; by-both without one of the two
\* fields uses the manufacturer field, and the first column without that.
C9_GroupingKey ==
  Grouped =>
    /\ HasColumn(out.df, out.group_col)
    /\ (out.group_by = Hersteller /\ HasColumn(Loaded, Hersteller)) =>
         out.group_col = Hersteller
    /\ (out.group_by = Herstellerbezeichnung /\ HasColumn(Loaded, Herstellerbezeichnung)) =>
         out.group_col = Herstellerbezeichnung
    /\ out.group_by = "both" =>
         IF HasColumn(Loaded, Hersteller) /\ HasColumn(Loaded, Herstellerbezeichnung)
         THEN /\ \A i \in DOMAIN out.df.rows :
                   GroupCells[i] =
                     Str(Txt(out.df.rows[i][Hersteller]) \o " - "
                           \o Txt(out.df.rows[i][Herstellerbezeichnung]))
              /\ KeyedRows = DOMAIN out.df.rows
              /\ out.top_n >= Cardinality(GroupKeys) =>
                   SumCounts(out.group_counts) = Len(out.df.rows)
         ELSE IF HasColumn(Loaded, Hersteller)
              THEN out.group_col = Hersteller
              ELSE out.group_col = Loaded.columns[1]

\* by-both on a record without a manufacturer: it is counted under 'nan - 172'
C9_Witness ==
  /\ Grouped
  /\ out.group_by = "both"
  /\ out.group_col = "Group"
  /\ \E i \in DOMAIN out.df.rows :
       /\ out.df.rows[i][Hersteller] = NaN
       /\ GroupCells[i] = Str("nan - 172")
  /\ Str("nan - 172") \in ReturnedKeys

(***************************************************************************)
(* C10                                                                     *)
(***************************************************************************)
\* the records that remain after the filter step
RemainingRows ==
  IF FilterGiven /\ HasColumn(Loaded, Hersteller) THEN ExpectedRows ELSE Loaded.rows

\* C10: with the sheet and the filter fixed, any other group-by mode and top-N
\* give the same summary, the same distribution and the same table sample,
\* and the sample is the first ten remaining records on the sheet's columns.
C10_ModeAndTopNOnlyChangeCounts ==
  Ran =>
    /\ \A group_by \in GroupBys : \A top_n \in TopNs :
         \A r \in update_dashboard(out.selected_sheet, group_by, top_n,
                                   out.selected_manufacturers) :
           /\ r.summary = out.summary
           /\ r.density_fig = out.density_fig
           /\ r.table = out.table
    /\ out.table.type = "table" =>
         /\ out.table.columns = Loaded.columns
         /\ out.table.rows = SubSeq(RemainingRows, 1,
                                    IF Len(RemainingRows) < SampleRows
                                    THEN Len(RemainingRows) ELSE SampleRows)

====
